---- MODULE Spec2Model ----
(***************************************************************************)
(* A model of docker_image_builder: the module-level build session of      *)
(* api.py (new, run, buildtime_volume, workdir, cmd, entrypoint, user,     *)
(* expose, volume, commit), and the output drain of dockertools.py         *)
(* (ContainerExec.communicate).                                            *)
(*                                                                         *)
(* Python values are records tagged with their type, so that None, the     *)
(* empty string and the empty list are three different values and          *)
(* isinstance() and truthiness can be computed as Python computes them.    *)
(* A str is a sequence of tokens; a token stands for one character or for  *)
(* one run of characters the code never looks inside.                      *)
(***************************************************************************)
EXTENDS Integers, Sequences, FiniteSets, TLC

VARIABLES
  \* api.py module globals (lines 52..59)
  container, buildtime_volumes, _workdir, _cmd, _entrypoint, _user,
  _expose, _volumes,
  \* the script that drives the API
  depth,      \* build contexts entered and not yet exited (generators of new() suspended at yield)
  pending,    \* the exception that is propagating, or NoExc
  proc,       \* "running" or "exited"
  exitcode,   \* the process exit code once proc = "exited"
  stderr,     \* what error() printed last
  last,       \* the last operation called and how it ended
  rt,         \* the container runtime calls made by the last operation, in order
  \* the container runtime's side
  started,    \* ids of the containers client.containers.run has started
  killed,     \* ids of the containers kill() has been called on
  \* what the script did since the last successful open (history, not read by the code)
  hist,
  \* one ContainerExec and its communicate() call (dockertools.py)
  stream,      \* the chunks the exec's output iterator yields, as chosen at the start
  output,      \* the chunks the iterator has not yielded yet
  line_prefix, \* communicate's argument
  written,     \* the bytes written to sys.stdout.buffer
  inspected,   \* how many times exec_inspect was called
  exec_status, \* what ExitCode the runtime reports for the exec
  dpc,         \* where communicate() is
  dres         \* what communicate() returned

sessionVars == <<container, buildtime_volumes, _workdir, _cmd, _entrypoint, _user,
                 _expose, _volumes, depth, pending, proc, exitcode, stderr, last, rt,
                 started, killed, hist>>
drainVars == <<stream, output, line_prefix, written, inspected, exec_status, dpc, dres>>
vars == <<sessionVars, drainVars>>

----------------------------------------------------------------------------
(* Bounds of the model *)

MaxDecl == 1        \* expose() calls, and volume() calls, while one container is recorded
MaxContainers == 2  \* containers started in one run of the script
MaxDepth == 2       \* build contexts nested in the script text
MaxChunks == 2      \* chunks of one exec's output stream
MaxChunkLen == 2    \* bytes of one chunk
MaxContent == 4     \* bytes of one copied file

----------------------------------------------------------------------------
(* Python values *)

PyNone == [type |-> "NoneType"]
PyStr(s) == [type |-> "str", v |-> s]
PyList(l) == [type |-> "list", v |-> l]
PyInt(n) == [type |-> "int", v |-> n]
Container(id) == [type |-> "Container", id |-> id]

\* bool(x): None, "", [] and 0 are false; a docker Container object is true
Truthy(x) ==
  CASE x.type = "NoneType" -> FALSE
    [] x.type = "str" -> x.v # <<>>
    [] x.type = "list" -> x.v # <<>>
    [] x.type = "int" -> x.v # 0
    [] OTHER -> TRUE

isinstance_str(x) == x.type = "str"

\* the exceptions
NoExc == [exc |-> "none"]
RuntimeError == [exc |-> "RuntimeError"]
ValueError == [exc |-> "ValueError"]
APIError == [exc |-> "APIError"]
SystemExit(code) == [exc |-> "SystemExit", code |-> code]

AttributeError == [exc |-> "AttributeError"]    \* None.put_archive
FileNotFoundError == [exc |-> "FileNotFoundError"]
OtherError == [exc |-> "OtherError"]  \* any exception that is not a docker.errors.APIError

----------------------------------------------------------------------------
(* Pure helpers *)

SeqsUpTo(S, n) == UNION {[1..k -> S] : k \in 0..n}

\* sep.join(parts) for a sequence of strings
RECURSIVE join(_, _)
join(sep, parts) ==
  IF parts = <<>> THEN <<>>
  ELSE IF Len(parts) = 1 THEN parts[1]
  ELSE parts[1] \o sep \o join(sep, Tail(parts))

\* json.dumps of a str (the model's strings hold no character that needs an escape)
json_str(s) == <<"\"">> \o s \o <<"\"">>

\* json.dumps(x) for a str or a list of str
json_dumps(x) ==
  IF x.type = "str" THEN json_str(x.v)
  ELSE <<"[">> \o join(<<",", " ">>, [i \in 1..Len(x.v) |-> json_str(x.v[i])]) \o <<"]">>

\* s.find(c): the first index of token c in s, 0 when there is none
find(s, c) ==
  IF \E i \in 1..Len(s) : s[i] = c
  THEN CHOOSE i \in 1..Len(s) : s[i] = c /\ \A j \in 1..(i - 1) : s[j] # c
  ELSE 0

\* s.partition(sep)[::2]: what is before the first sep, and what is after it
partition(s, sep) ==
  LET i == find(s, sep) IN
  IF i = 0 THEN <<s, <<>>>>
  ELSE <<SubSeq(s, 1, i - 1), SubSeq(s, i + 1, Len(s))>>

\* utils.merge_dictionary(a, b): the union of two dicts, b's entries overriding a's
merge_dictionary(a, b) ==
  [k \in DOMAIN a \cup DOMAIN b |-> IF k \in DOMAIN b THEN b[k] ELSE a[k]]

\* cmd as  cmd(), entrypoint() and run() normalise it: a str is run through bash
bash_c(c) == IF isinstance_str(c) THEN PyList(<<<<"bash">>, <<"-c">>, c.v>>) ELSE c

\* '{}:{}'.format(name, group)
format_user(name, group) == name \o <<":">> \o group

\* the default exit code of error()
ErrorDefaultCode == 1

\* 'ERROR exit code {!r}'.format(res)
error_message(res) == <<"ERROR exit code ", ToString(res.v)>>

----------------------------------------------------------------------------
(* What the script passes to the API *)

WorkdirArgs == {<<>>, <<"/a">>}
CmdArgs == {PyStr(<<"x">>), PyList(<<>>)}
UserArgs == {<<PyStr(<<>>), PyNone>>, <<PyStr(<<"u">>), PyStr(<<"g">>)>>}
ExposeArgs == {<<"80">>, <<"443">>}
VolumeArgs == {<<"/data">>, <<"/log">>}
HostPathArgs == {<<".", "/", "h">>}
ContainerPathArgs == {<<"/mnt">>}
EmptyDict == [k \in {} |-> PyNone]
SessionVolumeArgs ==
  {EmptyDict, [k \in {<<"/", "cwd", "/", "h">>} |-> [bind |-> <<"/s">>, mode |-> "ro"]]}
NotGiven == [type |-> "absent"]
\* run(cmd, workdir=...): the command and the workdir keyword
RunArgs == {<<PyStr(<<"make">>), NotGiven>>, <<PyList(<<<<"ls">>>>), PyStr(<<"/w">>)>>}
\* commit(repository, tag): the repository is absent, "", "n", "n:t", ":t", "n:",
\* ":" or, on a registry that is named with its port, "h:p/n:t"; the tag is absent,
\* "" or "x"
CommitArgs ==
  {<<PyNone, PyNone>>, <<PyNone, PyStr(<<"x">>)>>, <<PyStr(<<>>), PyStr(<<"x">>)>>,
   <<PyStr(<<"n">>), PyNone>>, <<PyStr(<<"n">>), PyStr(<<"x">>)>>,
   <<PyStr(<<"n", ":", "t">>), PyNone>>, <<PyStr(<<"n", ":", "t">>), PyStr(<<"x">>)>>,
   <<PyStr(<<"n", ":", "t">>), PyStr(<<>>)>>, <<PyStr(<<":", "t">>), PyNone>>,
   <<PyStr(<<"n", ":">>), PyNone>>, <<PyStr(<<":">>), PyNone>>,
   <<PyStr(<<"h", ":", "p/n", ":", "t">>), PyNone>>}
CopyBytes == {"a", "\r", "\n"}
File(content) == [kind |-> "file", path |-> <<"src", "/", "f">>, content |-> content]
Directory == [kind |-> "dir", path |-> <<"src", "/", "d">>,
              files |-> <<[name |-> <<"g">>, content |-> <<"a", "\r", "\n">>]>>]
Missing == [kind |-> "missing", path |-> <<"src", "/", "m">>]
CopySources == {File(<<"a", "\r", "\n", "a", "\n">>), Directory}
CopyDsts == {<<"f">>}
PutOutcomes == {"ok", "false", "APIError"}
ExitStatuses == {PyNone, PyInt(0), PyInt(2)}

----------------------------------------------------------------------------
(* The build session: api.py *)

metaVars == <<_workdir, _cmd, _entrypoint, _user, _expose, _volumes>>

NoHist == [workdir |-> PyNone, cmd |-> PyNone, entrypoint |-> PyNone, user |-> PyNone,
           expose |-> <<>>, volume |-> <<>>]

\* no call is in progress or has just ended
Idle == [op |-> "none", result |-> "ok"]

InitSession ==
  /\ container = PyNone
  /\ buildtime_volumes = EmptyDict
  /\ _workdir = PyNone
  /\ _cmd = PyNone
  /\ _entrypoint = PyNone
  /\ _user = PyNone
  /\ _expose = <<>>
  /\ _volumes = <<>>
  /\ depth = 0
  /\ pending = NoExc
  /\ proc = "running"
  /\ exitcode = PyNone
  /\ stderr = <<>>
  /\ last = Idle
  /\ rt = <<>>
  /\ started = {}
  /\ killed = {}
  /\ hist = NoHist

InitExec ==
  /\ stream = <<>>
  /\ output = <<>>
  /\ line_prefix = <<>>
  /\ written = <<>>
  /\ inspected = 0
  /\ exec_status = PyNone
  /\ dpc = "idle"
  /\ dres = PyNone

Init == InitSession /\ InitExec

\* the script is between two statements: it may call the API
Running == proc = "running" /\ pending = NoExc /\ last = Idle

Returned(op) == [op |-> op, result |-> "ok"]
Raised(op, e) == [op |-> op, result |-> e.exc]

\* an operation raises e before it has changed anything or called the runtime
Fail(op, e) ==
  /\ pending' = e
  /\ last' = Raised(op, e)
  /\ rt' = <<>>
  /\ UNCHANGED <<container, buildtime_volumes, metaVars, depth, proc, exitcode, stderr,
                 started, killed, hist>>

\* a guard that volume() lacks, against which C7 is sensitive
not_in_context_but_volume(op) == op # "volume" /\ ~Truthy(container)

\* a new() without its guard, against which C6 is sensitive
new_unguarded == FALSE

\* the guard that opens op, an operation of a build context: "if not container"
not_in_context(op) == ~Truthy(container)

\* the guard of new(): "if container"
new_nested == Truthy(container)

\* the assignments that end the finally block of new()
finally_reset ==
  /\ container' = PyNone
  /\ _workdir' = PyNone
  /\ _cmd' = PyNone
  /\ _entrypoint' = PyNone
  /\ _user' = PyNone
  /\ _expose' = <<>>
  /\ UNCHANGED _volumes

\* new(image, **kwargs) up to its yield. run_ok: whether client.containers.run
\* starts the container or raises an APIError (image not found, ...).
New(run_ok, volumes) ==
  /\ Running
  /\ IF new_nested
     THEN Fail("new", RuntimeError)
     ELSE /\ rt' = <<[call |-> "run",
                      volumes |-> merge_dictionary(buildtime_volumes, volumes)]>>
          /\ IF run_ok
             THEN /\ Cardinality(started) < MaxContainers
                  /\ depth < MaxDepth
                  /\ container' = Container(Cardinality(started) + 1)
                  /\ started' = started \cup {Cardinality(started) + 1}
                  /\ depth' = depth + 1
                  /\ hist' = NoHist
                  /\ pending' = NoExc
                  /\ last' = Returned("new")
                  /\ UNCHANGED metaVars
             ELSE /\ finally_reset
                  /\ pending' = APIError
                  /\ last' = Raised("new", APIError)
                  /\ UNCHANGED <<started, depth, hist>>
          /\ UNCHANGED <<buildtime_volumes, proc, exitcode, stderr, killed>>
  /\ UNCHANGED drainVars

\* The build context is left, normally or by the exception that is pending: the
\* finally block of new(). kill: how container.kill() ends, "ok", with a
\* docker.errors.APIError ("APIError"), or with any other exception ("other": the
\* connection to the daemon is lost, the call times out).
Close(kill) ==
  /\ proc = "running"
  /\ pending # NoExc \/ last = Idle
  /\ depth >= 1
  /\ depth' = depth - 1
  /\ IF Truthy(container)
     THEN /\ rt' = <<[call |-> "kill", id |-> container.id]>>
          /\ killed' = killed \cup {container.id}
          /\ IF kill \in {"ok", "APIError"}
             THEN /\ finally_reset
                  /\ pending' = pending
             ELSE /\ pending' = OtherError
                  /\ UNCHANGED <<container, metaVars>>
     ELSE /\ kill = "ok"
          /\ rt' = <<>>
          /\ finally_reset
          /\ pending' = pending
          /\ UNCHANGED killed
  /\ last' = [op |-> "close", result |-> IF pending' = NoExc THEN "ok" ELSE pending'.exc]
  /\ UNCHANGED <<buildtime_volumes, proc, exitcode, stderr, started, hist>>
  /\ UNCHANGED drainVars

\* a communicate() that takes any status for resolved, against which C16 is sensitive
poll_never_unresolved(status) == FALSE

\* communicate() after the stream has ended: "while self.poll() is None: raise"
poll_unresolved(status) == status = PyNone

\* a run() that reports only negative statuses, against which C5 is sensitive
run_failed_negative(res) == res.v < 0

\* "if res != 0" in run()
run_failed(res) == res # PyInt(0)

\* the workdir passed to exec_create: kwargs['workdir'], or _workdir when it is
\* set and the caller gave none
exec_workdir(kw) ==
  IF Truthy(_workdir) /\ kw = NotGiven THEN _workdir
  ELSE IF kw = NotGiven THEN PyNone ELSE kw

\* run(cmd, **kwargs). create_ok: whether exec_create succeeds or raises an
\* APIError; status: the ExitCode that exec_inspect reports once the output
\* stream has ended.
Run(c, kw, create_ok, status) ==
  /\ Running
  /\ IF not_in_context("run")
     THEN Fail("run", RuntimeError)
     ELSE LET create == [call |-> "exec_create", id |-> container.id, cmd |-> bash_c(c),
                         workdir |-> exec_workdir(kw)]
              start == [call |-> "exec_start", id |-> container.id]
              inspect == [call |-> "exec_inspect", id |-> container.id]
          IN /\ IF ~create_ok
                THEN /\ status = PyNone
                     /\ rt' = <<create>>
                     /\ pending' = APIError
                     /\ last' = Raised("run", APIError)
                     /\ UNCHANGED stderr
                ELSE IF poll_unresolved(status)
                THEN /\ rt' = <<create, start, inspect>>
                     /\ pending' = RuntimeError
                     /\ last' = Raised("run", RuntimeError)
                     /\ UNCHANGED stderr
                ELSE IF run_failed(status)
                THEN /\ rt' = <<create, start, inspect, inspect>>
                     /\ stderr' = error_message(status)
                     /\ pending' = SystemExit(ErrorDefaultCode)
                     /\ last' = [op |-> "run", result |-> "SystemExit", res |-> status]
                ELSE /\ rt' = <<create, start, inspect, inspect>>
                     /\ pending' = NoExc
                     /\ last' = [op |-> "run", result |-> "ok", res |-> status]
                     /\ UNCHANGED stderr
             /\ UNCHANGED <<container, buildtime_volumes, metaVars, depth, proc, exitcode,
                            started, killed, hist>>
  /\ UNCHANGED drainVars

\* path.isabs, and the test of buildtime_volume() for a relative path
isabs(p) == p # <<>> /\ p[1] = "/"
looks_like_path(p) == (p # <<>> /\ p[1] = ".") \/ (\E i \in 1..Len(p) : p[i] = "/")

\* path.abs(p) for a p that is not absolute: joined to the working directory, normalised
abs_path(p) ==
  <<"/", "cwd", "/">> \o
    (IF Len(p) >= 2 /\ p[1] = "." /\ p[2] = "/" THEN SubSeq(p, 3, Len(p)) ELSE p)

canonical_host_path(p) == IF ~isabs(p) /\ looks_like_path(p) THEN abs_path(p) ELSE p

\* a buildtime_volume() without its guard, against which C17 is sensitive
buildtime_volume_unguarded == FALSE

\* the guard of buildtime_volume(): "if container"
buildtime_volume_nested == Truthy(container)

\* buildtime_volume(host_path, container_path, mode='rw')
BuildtimeVolume(host_path, container_path) ==
  /\ Running
  /\ IF buildtime_volume_nested
     THEN Fail("buildtime_volume", RuntimeError)
     ELSE /\ buildtime_volumes' =
               [k \in DOMAIN buildtime_volumes \cup {canonical_host_path(host_path)} |->
                  IF k = canonical_host_path(host_path)
                  THEN [bind |-> container_path, mode |-> "rw"]
                  ELSE buildtime_volumes[k]]
          /\ pending' = NoExc
          /\ last' = Returned("buildtime_volume")
          /\ rt' = <<>>
          /\ UNCHANGED <<container, metaVars, depth, proc, exitcode, stderr, started,
                         killed, hist>>
  /\ UNCHANGED drainVars

\* a metadata operation that forgets the container, against which C11 is sensitive
MutationFrameForgetting(op) ==
  /\ pending' = NoExc
  /\ last' = Returned(op)
  /\ rt' = <<>>
  /\ container' = PyNone
  /\ UNCHANGED <<buildtime_volumes, depth, proc, exitcode, stderr, started, killed>>

\* what a metadata operation leaves alone, besides the fields of metaVars
MutationFrame(op) ==
  /\ pending' = NoExc
  /\ last' = Returned(op)
  /\ rt' = <<>>
  /\ UNCHANGED <<container, buildtime_volumes, depth, proc, exitcode, stderr, started, killed>>

\* workdir(path)
Workdir(path) ==
  /\ Running
  /\ IF not_in_context("workdir")
     THEN Fail("workdir", RuntimeError)
     ELSE /\ _workdir' = PyStr(path)
          /\ hist' = [hist EXCEPT !.workdir = PyStr(path)]
          /\ MutationFrame("workdir")
          /\ UNCHANGED <<_cmd, _entrypoint, _user, _expose, _volumes>>
  /\ UNCHANGED drainVars

\* cmd(cmd)
Cmd(c) ==
  /\ Running
  /\ IF not_in_context("cmd")
     THEN Fail("cmd", RuntimeError)
     ELSE /\ _cmd' = bash_c(c)
          /\ hist' = [hist EXCEPT !.cmd = c]
          /\ MutationFrame("cmd")
          /\ UNCHANGED <<_workdir, _entrypoint, _user, _expose, _volumes>>
  /\ UNCHANGED drainVars

\* entrypoint(cmd)
Entrypoint(c) ==
  /\ Running
  /\ IF not_in_context("entrypoint")
     THEN Fail("entrypoint", RuntimeError)
     ELSE /\ _entrypoint' = bash_c(c)
          /\ hist' = [hist EXCEPT !.entrypoint = c]
          /\ MutationFrame("entrypoint")
          /\ UNCHANGED <<_workdir, _cmd, _user, _expose, _volumes>>
  /\ UNCHANGED drainVars

\* user(name, group=None)
User(name, group) ==
  /\ Running
  /\ IF not_in_context("user")
     THEN Fail("user", RuntimeError)
     ELSE /\ _user' = IF Truthy(group) THEN PyStr(format_user(name.v, group.v)) ELSE name
          /\ hist' = [hist EXCEPT !.user = [name |-> name, group |-> group]]
          /\ MutationFrame("user")
          /\ UNCHANGED <<_workdir, _cmd, _entrypoint, _expose, _volumes>>
  /\ UNCHANGED drainVars

\* expose(decl)
Expose(decl) ==
  /\ Running
  /\ IF not_in_context("expose")
     THEN Fail("expose", RuntimeError)
     ELSE /\ Len(_expose) < MaxDecl
          /\ _expose' = Append(_expose, decl)
          /\ hist' = [hist EXCEPT !.expose = Append(@, decl)]
          /\ MutationFrame("expose")
          /\ UNCHANGED <<_workdir, _cmd, _entrypoint, _user, _volumes>>
  /\ UNCHANGED drainVars

\* volume(decl)
Volume(decl) ==
  /\ Running
  /\ IF not_in_context("volume")
     THEN Fail("volume", RuntimeError)
     ELSE /\ Len(_volumes) < MaxDecl
          /\ _volumes' = Append(_volumes, decl)
          /\ hist' = [hist EXCEPT !.volume = Append(@, decl)]
          /\ MutationFrame("volume")
          /\ UNCHANGED <<_workdir, _cmd, _entrypoint, _user, _expose>>
  /\ UNCHANGED drainVars

\* commit(): the repository and tag passed on, or the ValueError raised (lines 244..252)
commit_parse(repository, tag) ==
  IF Truthy(repository)
  THEN LET parts == partition(repository.v, ":")
           repo == parts[1]
           implicit_tag == parts[2]
       IN IF implicit_tag # <<>> /\ repo = <<>>
          THEN [exc |-> ValueError]
          ELSE IF Truthy(tag) /\ implicit_tag # <<>>
          THEN [exc |-> ValueError]
          ELSE [exc |-> NoExc, repository |-> PyStr(repo), tag |-> PyStr(implicit_tag)]
  ELSE [exc |-> NoExc, repository |-> PyNone, tag |-> PyNone]

\* commit(): the list of change directives (lines 254..266)
commit_changes ==
  (IF _cmd # PyNone THEN << <<"CMD ">> \o json_dumps(_cmd) >> ELSE <<>>)
  \o (IF _entrypoint # PyNone THEN << <<"ENTRYPOINT ">> \o json_dumps(_entrypoint) >> ELSE <<>>)
  \o (IF _user # PyNone THEN << <<"USER ">> \o _user.v >> ELSE <<>>)
  \o (IF _workdir # PyNone THEN << <<"WORKDIR ">> \o json_dumps(_workdir) >> ELSE <<>>)
  \o [i \in 1..Len(_expose) |-> <<"EXPOSE ">> \o _expose[i]]
  \o [i \in 1..Len(_volumes) |-> <<"VOLUME ">> \o _volumes[i]]

\* a commit() that ends the session, against which C12 is sensitive
commit_frame_closing ==
  /\ finally_reset
  /\ UNCHANGED <<buildtime_volumes, depth, proc, exitcode, stderr, started, killed, hist>>

\* commit() assigns to no global and calls nothing but container.commit
commit_frame ==
  UNCHANGED <<container, buildtime_volumes, metaVars, depth, proc, exitcode, stderr,
              started, killed, hist>>

\* commit(repository=None, tag=None, ...). commit_ok: whether container.commit
\* returns the image or raises an APIError.
Commit(repository, tag, commit_ok) ==
  /\ Running
  /\ LET parsed == commit_parse(repository, tag)
         called == ~not_in_context("commit") /\ parsed.exc = NoExc
         exc == IF not_in_context("commit") THEN RuntimeError
                ELSE IF parsed.exc # NoExc THEN parsed.exc
                ELSE IF commit_ok THEN NoExc ELSE APIError
     IN /\ ~called => commit_ok
        /\ rt' = IF called
                 THEN <<[call |-> "commit", id |-> container.id,
                         repository |-> parsed.repository, tag |-> parsed.tag,
                         changes |-> commit_changes]>>
                 ELSE <<>>
        /\ pending' = exc
        /\ last' = [op |-> "commit", result |-> IF exc = NoExc THEN "ok" ELSE exc.exc,
                    repository |-> repository, tag |-> tag]
  /\ commit_frame
  /\ UNCHANGED drainVars

\* the components of path p, a sequence of name tokens and "/" tokens
RECURSIVE split(_)
split(p) ==
  LET i == find(p, "/") IN
  IF i = 0 THEN <<p>>
  ELSE <<SubSeq(p, 1, i - 1)>> \o split(SubSeq(p, i + 1, Len(p)))

\* path.base(src): the last component of src
base(p) == LET comps == split(p) IN comps[Len(comps)]

\* posixpath.join(a, b)
posixpath_join(a, b) ==
  IF isabs(b) THEN b
  ELSE IF a = <<>> \/ a[Len(a)] = "/" THEN a \o b
  ELSE a \o <<"/">> \o b

\* the loop of posixpath.normpath over the components: acc is new_comps
RECURSIVE normpath_comps(_, _, _)
normpath_comps(comps, acc, slashes) ==
  IF comps = <<>> THEN acc
  ELSE LET comp == Head(comps)
           rest == Tail(comps)
       IN IF comp = <<>> \/ comp = <<".">> THEN normpath_comps(rest, acc, slashes)
          ELSE IF comp # <<"..">>
                  \/ (slashes = 0 /\ acc = <<>>)
                  \/ (acc # <<>> /\ acc[Len(acc)] = <<"..">>)
          THEN normpath_comps(rest, Append(acc, comp), slashes)
          ELSE IF acc # <<>> THEN normpath_comps(rest, SubSeq(acc, 1, Len(acc) - 1), slashes)
          ELSE normpath_comps(rest, acc, slashes)

\* posixpath.normpath(p)
posixpath_normpath(p) ==
  IF p = <<>> THEN <<".">>
  ELSE LET slashes == IF p[1] # "/" THEN 0
                      ELSE IF Len(p) >= 2 /\ p[2] = "/" /\ ~(Len(p) >= 3 /\ p[3] = "/")
                      THEN 2 ELSE 1
           comps == normpath_comps(split(p), <<>>, slashes)
           out == [i \in 1..slashes |-> "/"] \o join(<<"/">>, comps)
       IN IF out = <<>> THEN <<".">> ELSE out

\* the dst of copy(): resolved against _workdir when one is set
copy_dst(dst) ==
  IF Truthy(_workdir) THEN posixpath_normpath(posixpath_join(_workdir.v, dst)) ELSE dst

\* a copy() that leaves the bytes as they are, against which C13 is sensitive
replace_nothing(content) == content

\* content.replace(b'\r\n', b'\n')
RECURSIVE replace_crlf(_)
replace_crlf(content) ==
  IF content = <<>> THEN <<>>
  ELSE IF Len(content) >= 2 /\ content[1] = "\r" /\ content[2] = "\n"
  THEN <<"\n">> \o replace_crlf(SubSeq(content, 3, Len(content)))
  ELSE <<content[1]>> \o replace_crlf(Tail(content))

\* path.isfile(src)
isfile(src) == src.kind = "file"

\* what copy() puts in the archive, or the exception raised while it is built
\* (lines 279..290). A source is a file with its content, a directory with the
\* files under it, or a path where nothing is.
copy_archive(src, crlf_to_lf, chmod) ==
  IF crlf_to_lf /\ ~isfile(src)
  THEN [exc |-> RuntimeError, read |-> FALSE]
  ELSE IF crlf_to_lf
  THEN LET content == replace_crlf(src.content)
       IN [exc |-> NoExc, read |-> TRUE,
           entries |-> <<[name |-> base(src.path), kind |-> "file",
                          mode |-> <<"st_mode", chmod>>,
                          size |-> Len(content), content |-> content]>>]
  ELSE IF src.kind = "missing"
  THEN [exc |-> FileNotFoundError, read |-> TRUE]
  ELSE IF src.kind = "file"
  THEN [exc |-> NoExc, read |-> TRUE,
        entries |-> <<[name |-> base(src.path), kind |-> "file", mode |-> <<"st_mode">>,
                       size |-> Len(src.content), content |-> src.content]>>]
  ELSE [exc |-> NoExc, read |-> TRUE,
        entries |-> <<[name |-> base(src.path), kind |-> "dir", mode |-> <<"st_mode">>,
                       size |-> 0, content |-> <<>>]>>
                    \o [i \in 1..Len(src.files) |->
                          [name |-> base(src.path) \o <<"/">> \o src.files[i].name,
                           kind |-> "file", mode |-> <<"st_mode">>,
                           size |-> Len(src.files[i].content),
                           content |-> src.files[i].content]]]

\* copy(src, dst, crlf_to_lf=False, chmod=''). put: how container.put_archive
\* ends: it returns True ("ok") or False ("false"), or raises an APIError.
Copy(src, dst, crlf_to_lf, put) ==
  /\ Running
  /\ LET archive == copy_archive(src, crlf_to_lf, <<>>)
         called == archive.exc = NoExc /\ container # PyNone
         exc == IF archive.exc # NoExc THEN archive.exc
                ELSE IF container = PyNone THEN AttributeError
                ELSE IF put = "ok" THEN NoExc
                ELSE IF put = "false" THEN RuntimeError
                ELSE APIError
     IN /\ ~called => put = "ok"
        /\ rt' = IF called
                 THEN <<[call |-> "put_archive", id |-> container.id,
                         path |-> copy_dst(dst), entries |-> archive.entries]>>
                 ELSE <<>>
        /\ pending' = exc
        /\ last' = [op |-> "copy", result |-> IF exc = NoExc THEN "ok" ELSE exc.exc,
                    src |-> src, crlf_to_lf |-> crlf_to_lf, read |-> archive.read]
  /\ UNCHANGED <<container, buildtime_volumes, metaVars, depth, proc, exitcode,
                 stderr, started, killed, hist>>
  /\ UNCHANGED drainVars

----------------------------------------------------------------------------
(* The script around the API calls *)

\* A build script is a straight sequence of API calls, most of them in the body
\* of one "with new(...):"; an exception that a call raises is not caught by the
\* script: it leaves the build context through the finally block of new() and
\* then ends the process.

\* the call has returned and the script goes on to its next statement: the
\* record of the call is dropped
NextStatement ==
  /\ proc = "running"
  /\ pending = NoExc
  /\ last # Idle
  /\ last' = Idle
  /\ rt' = <<>>
  /\ UNCHANGED <<container, buildtime_volumes, metaVars, depth, pending, proc, exitcode,
                 stderr, started, killed, hist>>
  /\ UNCHANGED drainVars

\* the process ends: its module globals are gone; what it printed, its exit code
\* and the containers of the runtime remain
ProcessExit(code) ==
  /\ proc' = "exited"
  /\ exitcode' = PyInt(code)
  /\ container' = PyNone
  /\ buildtime_volumes' = EmptyDict
  /\ _workdir' = PyNone
  /\ _cmd' = PyNone
  /\ _entrypoint' = PyNone
  /\ _user' = PyNone
  /\ _expose' = <<>>
  /\ _volumes' = <<>>
  /\ hist' = NoHist
  /\ rt' = <<>>
  /\ UNCHANGED <<depth, stderr, started, killed>>

\* the pending exception leaves the script: the interpreter exits with the code
\* of SystemExit, or with 1 after the traceback of any other exception
Die ==
  /\ proc = "running"
  /\ pending # NoExc
  /\ depth = 0
  /\ ProcessExit(IF pending.exc = "SystemExit" THEN pending.code ELSE 1)
  /\ last' = [op |-> "exit", result |-> pending.exc]
  /\ UNCHANGED pending
  /\ UNCHANGED drainVars

\* the script reaches its end
ScriptEnd ==
  /\ Running
  /\ depth = 0
  /\ ProcessExit(0)
  /\ last' = [op |-> "exit", result |-> "ok"]
  /\ UNCHANGED pending
  /\ UNCHANGED drainVars

Next ==
  \/ \E run_ok \in BOOLEAN, volumes \in SessionVolumeArgs : New(run_ok, volumes)
  \/ \E kill \in {"ok", "APIError", "other"} : Close(kill)
  \/ \E a \in RunArgs, create_ok \in BOOLEAN, status \in ExitStatuses :
        Run(a[1], a[2], create_ok, status)
  \/ \E h \in HostPathArgs, cp \in ContainerPathArgs : BuildtimeVolume(h, cp)
  \/ \E path \in WorkdirArgs : Workdir(path)
  \/ \E c \in CmdArgs : Cmd(c)
  \/ \E c \in CmdArgs : Entrypoint(c)
  \/ \E u \in UserArgs : User(u[1], u[2])
  \/ \E decl \in ExposeArgs : Expose(decl)
  \/ \E decl \in VolumeArgs : Volume(decl)
  \/ \E a \in CommitArgs, commit_ok \in BOOLEAN : Commit(a[1], a[2], commit_ok)
  \/ \E src \in CopySources, dst \in CopyDsts, crlf_to_lf \in BOOLEAN, put \in PutOutcomes :
        Copy(src, dst, crlf_to_lf, put)
  \/ NextStatement
  \/ Die
  \/ ScriptEnd

Spec == Init /\ [][Next]_vars

----------------------------------------------------------------------------
(* copy() alone, over every content of a small file *)

CopyContents == SeqsUpTo(CopyBytes, MaxContent)
AllCopySources == {File(c) : c \in CopyContents} \cup {Directory, Missing}
AllCopyDsts == {<<"f">>, <<"/", "etc", "/", "f">>, <<"..", "/", ".", "/", "f">>}

\* the script calls copy() outside a build context, or in one where workdir() may
\* have been called
InitCopy == Init

NextCopy ==
  \/ \E src \in AllCopySources, dst \in AllCopyDsts, crlf_to_lf \in BOOLEAN,
        put \in PutOutcomes : Copy(src, dst, crlf_to_lf, put)
  \/ \E run_ok \in BOOLEAN : New(run_ok, EmptyDict)
  \/ \E path \in WorkdirArgs \cup {<<"/", "w">>} : Workdir(path)
  \/ \E kill \in {"ok", "APIError", "other"} : Close(kill)
  \/ NextStatement

SpecCopy == InitCopy /\ [][NextCopy]_vars

----------------------------------------------------------------------------
(* The output drain: dockertools.py, ContainerExec.communicate *)

Bytes == {"a", "\n"}
Chunks == SeqsUpTo(Bytes, MaxChunkLen)
LinePrefixArgs == {<<>>, <<"    ">>}

\* data.find(b'\n', offset) with indices from 1: 0 when there is none
find_nl(data, offset) ==
  IF \E i \in offset..Len(data) : data[i] = "\n"
  THEN CHOOSE i \in offset..Len(data) :
         data[i] = "\n" /\ \A j \in offset..(i - 1) : data[j] # "\n"
  ELSE 0

\* the while loop of communicate(): what it writes for data[offset:]
RECURSIVE write_lines(_, _, _)
write_lines(data, offset, prefix) ==
  IF offset > Len(data) THEN <<>>
  ELSE LET nl == find_nl(data, offset)
           stop == IF nl > 0 THEN nl ELSE Len(data)
       IN prefix \o SubSeq(data, offset, stop) \o write_lines(data, stop + 1, prefix)

\* one iteration of "for data in self.output": an empty chunk is skipped
write_chunk(data, prefix) == IF data = <<>> THEN <<>> ELSE write_lines(data, 1, prefix)

\* an exec was started with stream=True and communicate(line_prefix) is called
InitDrain ==
  /\ InitSession
  /\ stream \in SeqsUpTo(Chunks, MaxChunks)
  /\ output = stream
  /\ line_prefix \in LinePrefixArgs
  /\ written = <<>>
  /\ inspected = 0
  /\ exec_status = PyNone
  /\ dpc = "for"
  /\ dres = PyNone

\* the runtime resolves the exit code of the exec
ExecExits(code) ==
  /\ dpc # "idle"
  /\ exec_status = PyNone
  /\ exec_status' = PyInt(code)
  /\ UNCHANGED <<stream, output, line_prefix, written, inspected, dpc, dres>>
  /\ UNCHANGED sessionVars

\* the for loop takes the next chunk and writes it
DrainChunk ==
  /\ dpc = "for"
  /\ output # <<>>
  /\ written' = written \o write_chunk(Head(output), line_prefix)
  /\ output' = Tail(output)
  /\ UNCHANGED <<stream, line_prefix, inspected, exec_status, dpc, dres>>
  /\ UNCHANGED sessionVars

\* the stream has ended: "while self.poll() is None: raise RuntimeError(...)"
DrainPoll ==
  /\ dpc = "for"
  /\ output = <<>>
  /\ inspected' = inspected + 1
  /\ dpc' = IF poll_unresolved(exec_status) THEN "raised" ELSE "return"
  /\ UNCHANGED <<stream, output, line_prefix, written, exec_status, dres>>
  /\ UNCHANGED sessionVars

\* "return self.poll()"
DrainReturn ==
  /\ dpc = "return"
  /\ inspected' = inspected + 1
  /\ dres' = exec_status
  /\ dpc' = "returned"
  /\ UNCHANGED <<stream, output, line_prefix, written, exec_status>>
  /\ UNCHANGED sessionVars

\* run() after communicate() has returned res: "if res != 0: error(...)"
DrainCompare ==
  /\ dpc = "returned"
  /\ dpc' = "compared"
  /\ IF run_failed(dres)
     THEN /\ stderr' = error_message(dres)
          /\ pending' = SystemExit(ErrorDefaultCode)
          /\ last' = [op |-> "run", result |-> "SystemExit", res |-> dres]
     ELSE /\ pending' = NoExc
          /\ last' = [op |-> "run", result |-> "ok", res |-> dres]
          /\ UNCHANGED stderr
  /\ UNCHANGED <<container, buildtime_volumes, metaVars, depth, proc, exitcode, rt,
                 started, killed, hist>>
  /\ UNCHANGED <<stream, output, line_prefix, written, inspected, exec_status, dres>>

NextDrain ==
  \/ \E code \in {0, 2} : ExecExits(code)
  \/ DrainChunk
  \/ DrainPoll
  \/ DrainReturn
  \/ DrainCompare

SpecDrain == InitDrain /\ [][NextDrain]_vars

----------------------------------------------------------------------------
(* The claims about the build session, checked under Spec *)

ScalarsAbsent == _workdir = PyNone /\ _cmd = PyNone /\ _entrypoint = PyNone /\ _user = PyNone

\* C1: once a build context has exited, workdir, command, entrypoint and user are
\* absent and the exposed-port list and the volume list are both empty. (Stated for
\* the exits in which the stop call did not raise an unexpected error.)
C1_MetadataEmptyAfterExit ==
  (last.op = "close" /\ pending # OtherError) =>
    (ScalarsAbsent /\ _expose = <<>> /\ _volumes = <<>>)

\* the directives the calls recorded in h ask for: CMD, ENTRYPOINT, USER, WORKDIR
\* for the scalars that were set, with the last value set, then one EXPOSE line per
\* expose call and one VOLUME line per volume call
ExpectedChanges(h) ==
  (IF h.cmd # PyNone THEN << <<"CMD ">> \o json_dumps(bash_c(h.cmd)) >> ELSE <<>>)
  \o (IF h.entrypoint # PyNone
      THEN << <<"ENTRYPOINT ">> \o json_dumps(bash_c(h.entrypoint)) >> ELSE <<>>)
  \o (IF h.user # PyNone
      THEN << <<"USER ">> \o (IF h.user.group = PyNone THEN h.user.name.v
                              ELSE h.user.name.v \o <<":">> \o h.user.group.v) >>
      ELSE <<>>)
  \o (IF h.workdir # PyNone THEN << <<"WORKDIR ">> \o json_str(h.workdir.v) >> ELSE <<>>)
  \o [i \in 1..Len(h.expose) |-> <<"EXPOSE ">> \o h.expose[i]]
  \o [i \in 1..Len(h.volume) |-> <<"VOLUME ">> \o h.volume[i]]

\* C2: the change directives a commit passes to the runtime are exactly those of the
\* mutations made in the open session: one per scalar that was set, in the order
\* CMD, ENTRYPOINT, USER, WORKDIR, then the EXPOSE lines and the VOLUME lines in call
\* order; none when no mutation was made.
C2_DirectivesAreThoseOfTheSession ==
  (last.op = "commit" /\ rt # <<>>) => rt[1].changes = ExpectedChanges(hist)

\* C4: when a build context has exited, however its body ended, the stop call has
\* been issued on every container that was started and no container is recorded.
C4_StoppedAndClearedOnEveryExit ==
  (last.op = "close") => (started \subseteq killed /\ container = PyNone)

\* C10: at most one started container has not been sent a stop, and the recorded
\* container is absent or is that container.
C10_AtMostOneOpenSession ==
  /\ Cardinality(started \ killed) <= 1
  /\ container = PyNone \/ container.id \in started \ killed

\* C5: a run() that finds a non-zero exit status prints a diagnostic with the
\* status and raises SystemExit with the non-zero default code, and a run() that
\* finds status 0 returns; once the diagnostic is printed no further operation is
\* executed, only the build context is left, and the process ends with that code.
C5_FailedExecEndsScript ==
  /\ (last.op = "run" /\ Len(rt) = 4) =>
       IF last.res = PyInt(0)
       THEN last.result = "ok" /\ pending = NoExc /\ stderr = <<>>
       ELSE /\ last.result = "SystemExit"
            /\ pending = SystemExit(ErrorDefaultCode)
            /\ pending.code # 0
            /\ stderr = <<"ERROR exit code ", ToString(last.res.v)>>
  /\ stderr # <<>> =>
       /\ pending # NoExc
       /\ last.op \in {"run", "close", "exit"}
       /\ last.op = "run" => last.result = "SystemExit"
       /\ \A i \in 1..Len(rt) : last.op # "run" => rt[i].call = "kill"
       /\ proc = "exited" => exitcode = PyInt(ErrorDefaultCode) /\ exitcode # PyInt(0)

\* a run() found status 2 in a build context, the container was sent the stop and
\* the process has ended
C5_Witness ==
  /\ proc = "exited"
  /\ stderr = <<"ERROR exit code ", "2">>
  /\ killed = started /\ started # {}

\* C6: new() called in a build context raises the usage error, makes no call to the
\* runtime (starts no container, stops none) and leaves the recorded container and
\* every declared field as they were.
C6_NestedOpenRejected ==
  [][(depth >= 1 /\ last = Idle /\ pending = NoExc /\ last'.op = "new") =>
       /\ last'.result = "RuntimeError"
       /\ pending' = RuntimeError
       /\ rt' = <<>>
       /\ UNCHANGED <<container, buildtime_volumes, metaVars, depth, started, killed>>]_vars

\* new() was rejected in a build context that had declared metadata
C6_Witness ==
  /\ last = Raised("new", RuntimeError)
  /\ depth = 1
  /\ Truthy(container)
  /\ _expose # <<>>

SessionOps == {"workdir", "cmd", "entrypoint", "user", "expose", "volume", "run", "commit"}

\* C7: outside a build context each of workdir, cmd, entrypoint, user, expose,
\* volume, run and commit raises the usage error, makes no call to the runtime and
\* leaves the declared state unchanged.
C7_NoSessionNoOperation ==
  [][(depth = 0 /\ last = Idle /\ pending = NoExc /\ last'.op \in SessionOps) =>
       /\ last'.result = "RuntimeError"
       /\ pending' = RuntimeError
       /\ rt' = <<>>
       /\ UNCHANGED <<container, buildtime_volumes, metaVars, depth, started, killed>>]_vars

\* volume() was rejected after a build context had been left
C7_Witness ==
  /\ last = Raised("volume", RuntimeError)
  /\ depth = 0
  /\ killed # {}
  /\ container = PyNone

\* the index of the last ":" of s, 0 when there is none
LastColon(s) ==
  IF \E i \in 1..Len(s) : s[i] = ":"
  THEN CHOOSE i \in 1..Len(s) : s[i] = ":" /\ \A j \in (i + 1)..Len(s) : s[j] # ":"
  ELSE 0

\* C8: in a build context, commit("name:tag") without a tag argument passes
\* repository=name and tag=tag to the runtime (a tag holds no ":", so the tag is
\* what follows the last ":"); with a non-empty tag argument it raises the
\* validation error and calls nothing; so does commit(":tag").
C8_RepositoryParsing ==
  (last.op = "commit" /\ Truthy(container) /\ last.repository.type = "str") =>
    LET r == last.repository.v
        i == LastColon(r)
    IN /\ (1 < i /\ i < Len(r) /\ last.tag = PyNone) =>
            /\ rt # <<>>
            /\ rt[1].repository = PyStr(SubSeq(r, 1, i - 1))
            /\ rt[1].tag = PyStr(SubSeq(r, i + 1, Len(r)))
       /\ (1 < i /\ i < Len(r) /\ Truthy(last.tag)) =>
            last.result = "ValueError" /\ rt = <<>>
       /\ (i = 1 /\ 1 < Len(r)) =>
            last.result = "ValueError" /\ rt = <<>>

\* C9: commit with a non-empty tag argument and no repository (absent or empty)
\* raises a usage error and does not call the runtime.
C9_BareTagRejected ==
  (last.op = "commit" /\ ~Truthy(last.repository) /\ Truthy(last.tag)) =>
    last.result \in {"RuntimeError", "ValueError"} /\ rt = <<>>

MutationOps == {"workdir", "cmd", "entrypoint", "user", "expose", "volume"}

\* t is s with one element appended
AppendsOne(s, t) == Len(t) = Len(s) + 1 /\ SubSeq(t, 1, Len(s)) = s

C12_CommitKeepsSession ==
  [][(last = Idle /\ pending = NoExc /\ Truthy(container)
        /\ last'.op = "commit" /\ last'.result = "ok") =>
       /\ UNCHANGED <<container, metaVars, buildtime_volumes, depth, started, killed>>
       /\ container.id \notin killed'
       /\ Len(rt') = 1 /\ rt'[1].call = "commit" /\ rt'[1].id = container.id
       /\ rt'[1].changes = commit_changes'
       /\ pending' = NoExc
       /\ \A op \in SessionOps : ~not_in_context(op)']_vars

\* a commit has returned in a build context that had declared metadata
C12_Witness ==
  /\ last.op = "commit" /\ last.result = "ok"
  /\ Truthy(container)
  /\ rt[1].changes # <<>>
  /\ _cmd # PyNone

\* the directive list holds a line that starts with keyword kw
HasDirective(changes, kw) == \E i \in 1..Len(changes) : changes[i][1] = kw

\* C14: the directive list passed by commit() holds a CMD, ENTRYPOINT, USER or
\* WORKDIR line only if that field is non-empty (not None, not '' and not []), and
\* it holds a WORKDIR line exactly when run() would pass the declared workdir to
\* the exec, that is when _workdir is truthy.
C14_DirectiveOnlyForNonEmptyField ==
  (last.op = "commit" /\ rt # <<>>) =>
    /\ HasDirective(rt[1].changes, "CMD ") => Truthy(_cmd)
    /\ HasDirective(rt[1].changes, "ENTRYPOINT ") => Truthy(_entrypoint)
    /\ HasDirective(rt[1].changes, "USER ") => Truthy(_user)
    /\ HasDirective(rt[1].changes, "WORKDIR ") <=> Truthy(_workdir)

\* C15: when the build context has been left, whatever container.kill() did, no
\* exception of the stop call is propagating (only APIError and the other
\* failures of the call can come from it, and the body raises neither of the
\* latter), no container is recorded, the declared metadata are empty, and the
\* guard of new() would let a new context open.
C15_CloseSwallowsStopErrors ==
  (last.op = "close") =>
    /\ pending # OtherError
    /\ container = PyNone
    /\ ScalarsAbsent /\ _expose = <<>> /\ _volumes = <<>>
    /\ ~new_nested

\* C17: buildtime_volume() called while a container is recorded raises the usage
\* error and leaves the mapping as it is; the mapping changes only by a
\* buildtime_volume() outside a build context (and is gone with the process), so
\* no new, run, commit, copy, metadata operation or exit of the build context
\* changes it; and every entry of it is in the volumes that new() passes to the
\* runtime, with its own value unless the caller of new() gave that key.
C17_BuildtimeVolumesFrozenInSession ==
  [][/\ (Truthy(container) /\ last = Idle /\ pending = NoExc
           /\ last'.op = "buildtime_volume") =>
          /\ last'.result = "RuntimeError"
          /\ rt' = <<>>
          /\ UNCHANGED buildtime_volumes
     /\ buildtime_volumes' # buildtime_volumes =>
          \/ proc' = "exited"
          \/ ~Truthy(container) /\ last'.op = "buildtime_volume" /\ last'.result = "ok"
     /\ (last'.op = "new" /\ rt' # <<>>) =>
          /\ UNCHANGED buildtime_volumes
          /\ \A k \in DOMAIN buildtime_volumes :
               /\ k \in DOMAIN rt'[1].volumes
               /\ \/ rt'[1].volumes[k] = buildtime_volumes[k]
                  \/ \E v \in SessionVolumeArgs : k \in DOMAIN v /\ rt'[1].volumes[k] = v[k]]_vars

\* a second build context was opened with the volume declared before the first
C17_Witness ==
  /\ last = Returned("new")
  /\ killed # {}
  /\ DOMAIN buildtime_volumes # {}
  /\ \A k \in DOMAIN buildtime_volumes : rt[1].volumes[k] = buildtime_volumes[k]

\* C18: in a build context, commit(name, tag=x) with a non-empty name that holds
\* no ":" and a non-empty x calls the runtime with repository=name and tag=x.
C18_ExplicitTagHonoured ==
  (last.op = "commit" /\ Truthy(container)
     /\ Truthy(last.repository) /\ LastColon(last.repository.v) = 0
     /\ Truthy(last.tag)) =>
    /\ rt # <<>>
    /\ rt[1].repository = last.repository
    /\ rt[1].tag = last.tag

\* C19: copy() called while no container is recorded raises the usage error of the
\* other operations of a build context, before it has read the source or built
\* an archive, and calls nothing of the runtime.
C19_CopyNeedsSession ==
  (last.op = "copy" /\ container = PyNone) =>
    /\ last.result = "RuntimeError"
    /\ ~last.read
    /\ rt = <<>>

----------------------------------------------------------------------------
(* The claim about the drain, checked under SpecDrain *)

RECURSIVE Flatten(_)
Flatten(chunks) == IF chunks = <<>> THEN <<>> ELSE Head(chunks) \o Flatten(Tail(chunks))

\* bytes b[i..] with prefix p before every byte that starts a line
RECURSIVE PrefixEveryLine(_, _, _)
PrefixEveryLine(b, p, i) ==
  IF i > Len(b) THEN <<>>
  ELSE (IF i = 1 \/ b[i - 1] = "\n" THEN p ELSE <<>>) \o <<b[i]>>
       \o PrefixEveryLine(b, p, i + 1)

\* C3: when the stream has been consumed, what was written is the stream with the
\* prefix once before every line, however the stream was cut into chunks.
C3_DrainIndependentOfChunking ==
  (dpc # "idle" /\ output = <<>>) =>
    written = PrefixEveryLine(Flatten(stream), line_prefix, 1)

\* where communicate() and the run() that called it are, against what was
\* inspected, written and returned
DrainOrdered ==
  /\ inspected > 0 => (output = <<>> /\ Len(written) >= Len(Flatten(stream)))
  /\ dpc = "for" => inspected = 0
  /\ dpc = "raised" => (inspected = 1 /\ dres = PyNone)
  /\ dpc = "return" => (inspected = 1 /\ exec_status # PyNone)
  /\ dpc \in {"returned", "compared"} =>
       (inspected = 2 /\ dres.type = "int" /\ dres = exec_status)
  /\ dpc = "compared" =>
       /\ last.op = "run" /\ last.res = dres
       /\ last.result = (IF dres = PyInt(0) THEN "ok" ELSE "SystemExit")

\* the step that leaves the for loop: the stream has ended, the status is
\* inspected once, and communicate() raises exactly when it is unresolved
DrainLeavesLoop ==
  (dpc = "for" /\ dpc' # "for") =>
    /\ output = <<>>
    /\ inspected' = inspected + 1
    /\ dpc' = (IF exec_status = PyNone THEN "raised" ELSE "return")

\* C16: communicate() inspects the exec status only after the stream has ended
\* and every chunk is written; when the status is unresolved then it raises after
\* that one inspection, otherwise it returns a resolved status, and run() compares
\* the status returned with 0.
C16_DrainThenInspect == []DrainOrdered /\ [][DrainLeavesLoop]_vars

\* a stream of two chunks was written, the exec ended with status 2 and run()
\* compared it
C16_Witness ==
  /\ dpc = "compared"
  /\ dres = PyInt(2)
  /\ Len(stream) = 2
  /\ written # <<>>

----------------------------------------------------------------------------
(* The claims about copy(), checked under SpecCopy *)

\* c holds a CR directly followed by an LF
HasCRLF(c) == \E i \in 1..(Len(c) - 1) : c[i] = "\r" /\ c[i + 1] = "\n"

\* c holds a CR that is not the first byte of a CRLF line ending
HasLoneCR(c) == \E i \in 1..Len(c) : c[i] = "\r" /\ (i = Len(c) \/ c[i + 1] # "\n")

\* the bytes of c from index i on, without the CRs that an LF follows
RECURSIVE DropCRBeforeLF(_, _)
DropCRBeforeLF(c, i) ==
  IF i > Len(c) THEN <<>>
  ELSE (IF c[i] = "\r" /\ i < Len(c) /\ c[i + 1] = "\n" THEN <<>> ELSE <<c[i]>>)
       \o DropCRBeforeLF(c, i + 1)

IsNotCR(b) == b # "\r"

\* C13: copy(src, dst, crlf_to_lf=True) of a regular file uploads one entry whose
\* content is the file's with each CRLF replaced by one LF and whose size is the
\* length of that content; when the file's line endings are LF and CRLF only, the
\* entry holds no CR at all, so no CR-LF pair. When src is not a regular file the
\* call raises and put_archive is not called.
C13_CrlfNormalized ==
  (last.op = "copy" /\ last.crlf_to_lf) =>
    /\ (last.src.kind = "file" /\ rt # <<>>) =>
         /\ rt[1].call = "put_archive"
         /\ Len(rt[1].entries) = 1
         /\ rt[1].entries[1].content = DropCRBeforeLF(last.src.content, 1)
         /\ rt[1].entries[1].size = Len(rt[1].entries[1].content)
         /\ ~HasLoneCR(last.src.content) =>
              /\ ~HasCRLF(rt[1].entries[1].content)
              /\ rt[1].entries[1].content = SelectSeq(last.src.content, IsNotCR)
    /\ last.src.kind # "file" =>
         /\ last.result = "RuntimeError"
         /\ rt = <<>>

\* a file whose lines end in CRLF and in LF was uploaded with crlf_to_lf=True
C13_Witness ==
  /\ last.op = "copy" /\ last.crlf_to_lf /\ last.result = "ok"
  /\ last.src.kind = "file"
  /\ last.src.content = <<"a", "\r", "\n", "\n">>
  /\ rt # <<>>
  /\ rt[1].entries[1].content = <<"a", "\n", "\n">>

====
